---- MODULE Spec2Model ----
(***************************************************************************)
(* Model of morlock (src/morlock.go): the size negotiator fitSize, the     *)
(* clipped drawing surface Pen, and the widgets Label, Blank, Tint, Row,   *)
(* Column and Grid drawn onto the termbox cell buffer.                     *)
(*                                                                         *)
(* A Go string is a sequence of bytes (1-indexed here, 0-indexed in Go).   *)
(* A *Pen is <<>> (nil) or <<r>> with r the record of the Pen's fields.    *)
(* The cell buffer is a function from 0..sw*sh-1 to cells, row-major.      *)
(* A run-time panic (index or slice bounds out of range) ends the program: *)
(* it is recorded in the panic flag and no further operation runs.         *)
(***************************************************************************)
EXTENDS Integers, Sequences, FiniteSets

\* ------------------------------------------------------------ bounds

\* Widest and tallest backend grid of the surface specification.
MaxW == 3
MaxH == 2
\* Number of surface operations in one behaviour.
MaxOps == 2
\* Longest text, in characters, given to print / println.
MaxChars == 1
\* Largest offset given to clip (the smallest is -1).
MaxOff == 1
\* Largest extent given to clip (the smallest is -1).
MaxExt == 2
\* fitSize inputs: most participants, largest min / max, largest total.
MaxParts == 3
MaxReq == 2
MaxTotal == 4
\* Widget trees: most children of a Row / Column, most rows of a Grid.
MaxKids == 2
MaxRows == 2

\* termbox attributes (termbox.ColorDefault, termbox.ColorRed).
ColorDefault == 0
ColorRed == 2

\* ------------------------------------------------------------ helpers

RECURSIVE SumSeq(_)
SumSeq(s) == IF s = <<>> THEN 0 ELSE Head(s) + SumSeq(Tail(s))

\* All sequences over S of length at most n.
SeqsUpTo(S, n) == UNION {[1..k -> S] : k \in 0..n}

\* ------------------------------------------------------------ UTF-8

RuneError == 65533

IsCont(s, k, lo, hi) == k <= Len(s) /\ s[k] >= lo /\ s[k] <= hi

\* utf8.DecodeRuneInString(s[i:]) as used by `range s` and RuneCountInString:
\* <<rune, size>> of the encoding starting at 0-based byte index i; an
\* invalid or truncated encoding is RuneError of size 1.
DecodeRune(s, i) ==
    LET k  == i + 1
        b0 == s[k]
        c1 == IF k + 1 <= Len(s) THEN s[k + 1] - 128 ELSE 0
        c2 == IF k + 2 <= Len(s) THEN s[k + 2] - 128 ELSE 0
        c3 == IF k + 3 <= Len(s) THEN s[k + 3] - 128 ELSE 0
        bad == <<RuneError, 1>>
        two(lo, hi) ==
            IF IsCont(s, k + 1, lo, hi)
            THEN <<(b0 - 192) * 64 + c1, 2>> ELSE bad
        three(lo, hi) ==
            IF IsCont(s, k + 1, lo, hi) /\ IsCont(s, k + 2, 128, 191)
            THEN <<(b0 - 224) * 4096 + c1 * 64 + c2, 3>> ELSE bad
        four(lo, hi) ==
            IF /\ IsCont(s, k + 1, lo, hi)
               /\ IsCont(s, k + 2, 128, 191)
               /\ IsCont(s, k + 3, 128, 191)
            THEN <<(b0 - 240) * 262144 + c1 * 4096 + c2 * 64 + c3, 4>> ELSE bad
    IN  CASE b0 < 128 -> <<b0, 1>>
          [] b0 >= 194 /\ b0 <= 223 -> two(128, 191)
          [] b0 = 224 -> three(160, 191)
          [] (b0 >= 225 /\ b0 <= 236) \/ b0 = 238 \/ b0 = 239 -> three(128, 191)
          [] b0 = 237 -> three(128, 159)
          [] b0 = 240 -> four(144, 191)
          [] b0 >= 241 /\ b0 <= 243 -> four(128, 191)
          [] b0 = 244 -> four(128, 143)
          [] OTHER -> bad

RECURSIVE RuneCountFrom(_, _)
RuneCountFrom(s, i) ==
    IF i >= Len(s) THEN 0 ELSE 1 + RuneCountFrom(s, i + DecodeRune(s, i)[2])

\* utf8.RuneCountInString(s)
RuneCountInString(s) == RuneCountFrom(s, 0)

RECURSIVE RunesFrom(_, _)
RunesFrom(s, i) ==
    IF i >= Len(s) THEN <<>>
    ELSE <<DecodeRune(s, i)[1]>> \o RunesFrom(s, i + DecodeRune(s, i)[2])

\* []rune(s): the characters of s in order.
Runes(s) == RunesFrom(s, 0)

\* The UTF-8 encoding of a character below U+0800.
EncodeRune(r) == IF r < 128 THEN <<r>> ELSE <<192 + (r \div 64), 128 + (r % 64)>>

RECURSIVE EncodeRunes(_)
EncodeRunes(rs) ==
    IF rs = <<>> THEN <<>> ELSE EncodeRune(Head(rs)) \o EncodeRunes(Tail(rs))

\* ------------------------------------------------------------ cells

\* termbox.Cell
Cell(ch, fg, bg) == [Ch |-> ch, Fg |-> fg, Bg |-> bg]

\* The cell termbox.Clear(ColorDefault, ColorDefault) fills the buffer with.
BlankCell == Cell(32, ColorDefault, ColorDefault)

\* The buffer after termbox.Clear on a w x h grid.
ClearedBuffer(w, h) == [k \in 0..(w * h - 1) |-> BlankCell]

\* len(termbox.CellBuffer())
BufLen(b) == Cardinality(DOMAIN b)

\* ------------------------------------------------------------ Pen

Nil == <<>>

\* &Pen{...}
MkPen(x, y, w, h, dx, dy, fg, bg) ==
    <<[x |-> x, y |-> y, w |-> w, h |-> h, dx |-> dx, dy |-> dy,
       fg |-> fg, bg |-> bg]>>

\* The result of a surface operation: the pen it leaves, the buffer, and
\* whether it panicked.
Res(p, b, bad) == [pen |-> p, buf |-> b, panic |-> bad]

\* The out-of-bounds cases of Pen.Clip's switch, on the new pen o and its
\* parent q.
ClipRejects(o, q) ==
    \/ o.x < 0
    \/ o.y < 0
    \/ o.w < 0
    \/ o.h < 0
    \/ o.x + o.w > q.x + q.w
    \/ o.y + o.h > q.y + q.h

\* Clip of a nil receiver taken as a clip of the zero Pen.
ClipOfNilAsZeroPen(x, y, w, h) ==
    IF x < 0 \/ y < 0 \/ w < 0 \/ h < 0 \/ x + w > 0 \/ y + h > 0 THEN <<>>
    ELSE <<[x |-> x, y |-> y, w |-> w, h |-> h, dx |-> 0, dy |-> 0,
            fg |-> 0, bg |-> 0]>>

\* What Pen.Clip returns for a nil receiver.
ClipOfNil(x, y, w, h) == Nil

\* Pen.Clip
PenClip(p, x, y, w, h) ==
    IF p = Nil THEN ClipOfNil(x, y, w, h)
    ELSE LET q == p[1]
             o == [x |-> q.x + x, y |-> q.y + y, w |-> w, h |-> h]
         IN  IF ClipRejects(o, q) THEN Nil
             ELSE MkPen(o.x, o.y, o.w, o.h, 0, 0, q.fg, q.bg)

\* Pen.Width
PenWidth(p) == IF p = Nil THEN 0 ELSE p[1].w

\* Pen.Height
PenHeight(p) == IF p = Nil THEN 0 ELSE p[1].h

\* Pen.SetFg
PenSetFg(p, fg) == IF p = Nil THEN p ELSE <<[p[1] EXCEPT !.fg = fg]>>

\* Pen.SetBg
PenSetBg(p, bg) == IF p = Nil THEN p ELSE <<[p[1] EXCEPT !.bg = bg]>>

\* The buffer index Pen.Clear writes for row y and column x of its loops:
\* b := buf[y*sw+p.x:]; b[x] = cell.
ClearIndex(q, stride, y, x) == y * stride + q.x + x

\* The loops of Pen.Clear from cell k (row k \div w, column k % w) on.
RECURSIVE ClearFrom(_, _, _, _)
ClearFrom(q, stride, k, b) ==
    IF k >= q.w * q.h THEN Res(<<[q EXCEPT !.dx = 0, !.dy = 0]>>, b, FALSE)
    ELSE LET idx == ClearIndex(q, stride, k \div q.w, k % q.w)
         IN  IF idx >= BufLen(b) THEN Res(<<q>>, b, TRUE)
             ELSE ClearFrom(q, stride, k + 1,
                            [b EXCEPT ![idx] = Cell(32, q.fg, q.bg)])

\* Pen.Clear
PenClear(p, stride, b) ==
    IF p = Nil THEN Res(p, b, FALSE) ELSE ClearFrom(p[1], stride, 0, b)

\* The `for i, r := range s { row[i] = ... }` loop of printRow from byte
\* index i on; row starts at buffer index off and has rowlen cells.
RECURSIVE RangeWrite(_, _, _, _, _, _)
RangeWrite(q, s, i, off, rowlen, b) ==
    IF i >= Len(s) THEN [buf |-> b, panic |-> FALSE]
    ELSE IF i >= rowlen THEN [buf |-> b, panic |-> TRUE]
    ELSE RangeWrite(q, s, i + DecodeRune(s, i)[2], off, rowlen,
                    [b EXCEPT ![off + i] = Cell(DecodeRune(s, i)[1], q.fg, q.bg)])

\* The text printRow ranges over: s cut to ct bytes when the row is shorter
\* than the ct characters of s.
RowText(s, rowlen) ==
    IF rowlen < RuneCountInString(s)
    THEN SubSeq(s, 1, RuneCountInString(s)) ELSE s

\* Pen.printRow on a non-nil pen q: [pen, buf, panic, n] with n the value
\* returned.
PrintRow(q, s, stride, b) ==
    LET off    == (q.dx + q.x) + (q.dy + q.y) * stride
        rowlen == q.w - q.dx
    IN  IF off < 0 \/ off > BufLen(b) \/ rowlen < 0 \/ rowlen > BufLen(b) - off
        THEN [pen |-> q, buf |-> b, panic |-> TRUE, n |-> 0]
        ELSE LET wr == RangeWrite(q, RowText(s, rowlen), 0, off, rowlen, b)
             IN  IF wr.panic
                 THEN [pen |-> q, buf |-> wr.buf, panic |-> TRUE, n |-> 0]
                 ELSE [pen |-> [q EXCEPT !.dx = q.dx + rowlen], buf |-> wr.buf,
                       panic |-> FALSE, n |-> rowlen]

\* The cursor after one iteration of the loop of Pen.Print.
AfterRow(q) == [q EXCEPT !.dx = 0, !.dy = q.dy + 1]

\* The loop of Pen.Print with n bytes of s consumed.
RECURSIVE PrintLoop(_, _, _, _, _)
PrintLoop(q, s, n, stride, b) ==
    IF ~(n < Len(s) /\ q.dy < q.h) THEN Res(<<q>>, b, FALSE)
    ELSE LET r == PrintRow(q, SubSeq(s, n + 1, Len(s)), stride, b)
         IN  IF r.panic THEN Res(<<r.pen>>, r.buf, TRUE)
             ELSE PrintLoop(AfterRow(r.pen), s, n + r.n, stride, r.buf)

\* Pen.Print
PenPrint(p, s, stride, b) ==
    IF p = Nil THEN Res(p, b, FALSE) ELSE PrintLoop(p[1], s, 0, stride, b)

\* Pen.Println
PenPrintln(p, s, stride, b) ==
    IF p = Nil THEN Res(p, b, FALSE)
    ELSE LET r == PenPrint(p, s, stride, b)
         IN  IF r.panic THEN r
             ELSE Res(<<[r.pen[1] EXCEPT !.dx = 0, !.dy = r.pen[1].dy + 1]>>,
                      r.buf, FALSE)

\* ------------------------------------------------------------ fitSize

\* The first loop of fitSize without its n -= sz[i].
FitBudgetKeepsTotal(n, sz) == n

\* n after the first loop of fitSize: n -= sz[i] for every participant.
FitBudget(n, sz) == n - SumSeq(sz)

\* One pass of the inner loop of fitSize from participant i on.
RECURSIVE FitPass(_, _, _, _, _)
FitPass(sz, max, n, more, i) ==
    IF i > Len(sz) THEN [sz |-> sz, n |-> n, more |-> more]
    ELSE IF sz[i] = max[i] THEN FitPass(sz, max, n, more, i + 1)
    ELSE FitPass([sz EXCEPT ![i] = sz[i] + 1], max, n - 1, TRUE, i + 1)

\* The outer loop of fitSize: for n > 0 && more { more = false; pass }.
RECURSIVE FitLoop(_, _, _, _)
FitLoop(sz, max, n, more) ==
    IF ~(n > 0 /\ more) THEN sz
    ELSE LET r == FitPass(sz, max, n, FALSE, 1)
         IN  FitLoop(r.sz, max, r.n, r.more)

\* fitSize(n, t, sel), with req[i] = sel(t[i]) = <<min, max>>.
fitSize(n, req) ==
    LET sz  == [i \in 1..Len(req) |-> req[i][1]]
        max == [i \in 1..Len(req) |-> req[i][2]]
    IN  FitLoop(sz, max, FitBudget(n, sz), TRUE)

\* ------------------------------------------------------------ widgets

\* Widgets are records of one shape; kids holds the children of a Row or
\* Column, the Rows of a Grid, and the one wrapped Widget of a Tint.
Widget(kind, text, dims, fg, bg, kids) ==
    [kind |-> kind, text |-> text, dims |-> dims, fg |-> fg, bg |-> bg,
     kids |-> kids]

Label(s) == Widget("Label", s, <<0, 0, 0, 0>>, 0, 0, <<>>)
Blank(minW, maxW, minH, maxH) ==
    Widget("Blank", <<>>, <<minW, maxW, minH, maxH>>, 0, 0, <<>>)
Tint(fg, bg, w) == Widget("Tint", <<>>, <<0, 0, 0, 0>>, fg, bg, <<w>>)
Row(kids) == Widget("Row", <<>>, <<0, 0, 0, 0>>, 0, 0, kids)
Column(kids) == Widget("Column", <<>>, <<0, 0, 0, 0>>, 0, 0, kids)
Grid(rows) == Widget("Grid", <<>>, <<0, 0, 0, 0>>, 0, 0, rows)

\* The result `if v > acc { acc = v }` leaves after ranging over vs.
RECURSIVE MaxInto(_, _)
MaxInto(acc, vs) ==
    IF vs = <<>> THEN acc
    ELSE MaxInto(IF Head(vs) > acc THEN Head(vs) ELSE acc, Tail(vs))

\* Label.ReqWidth with a maximum one above the text's length.
LabelReqWidthLoose(s) == <<Len(s), Len(s) + 1>>

\* Label.ReqWidth: len(t), len(t).
LabelReqWidth(s) == <<Len(s), Len(s)>>

\* ReqWidth and ReqHeight of every widget kind, as <<min, max>>.
RECURSIVE ReqWidth(_)
ReqWidth(t) ==
    LET ks == [i \in 1..Len(t.kids) |-> ReqWidth(t.kids[i])]
        mins == [i \in 1..Len(ks) |-> ks[i][1]]
        maxs == [i \in 1..Len(ks) |-> ks[i][2]]
    IN  CASE t.kind = "Label"  -> LabelReqWidth(t.text)
          [] t.kind = "Blank"  -> <<t.dims[1], t.dims[2]>>
          [] t.kind = "Tint"   -> ks[1]
          [] t.kind = "Row"    -> <<SumSeq(mins), SumSeq(maxs)>>
          [] t.kind = "Column" -> <<MaxInto(0, mins), MaxInto(0, maxs)>>
          [] t.kind = "Grid"   ->
                <<MaxInto(0, mins) + Len(t.kids), MaxInto(0, maxs) + Len(t.kids)>>

RECURSIVE ReqHeight(_)
ReqHeight(t) ==
    LET ks == [i \in 1..Len(t.kids) |-> ReqHeight(t.kids[i])]
        mins == [i \in 1..Len(ks) |-> ks[i][1]]
        maxs == [i \in 1..Len(ks) |-> ks[i][2]]
    IN  CASE t.kind = "Label"  -> <<1, 1>>
          [] t.kind = "Blank"  -> <<t.dims[3], t.dims[4]>>
          [] t.kind = "Tint"   -> ks[1]
          [] t.kind = "Row"    -> <<MaxInto(0, mins), MaxInto(0, maxs)>>
          [] t.kind = "Column" -> <<SumSeq(mins), SumSeq(maxs)>>
          [] t.kind = "Grid"   -> <<SumSeq(mins), SumSeq(maxs)>>

\* Grid.Draw: cols, the length of the longest row.
GridCols(t) == MaxInto(0, [i \in 1..Len(t.kids) |-> Len(t.kids[i].kids)])

\* Grid.Draw: w after the sizing loops, from row i, cell j on.
RECURSIVE GridWidths(_, _, _, _)
GridWidths(t, w, i, j) ==
    IF i > Len(t.kids) THEN w
    ELSE IF j > Len(t.kids[i].kids) THEN GridWidths(t, w, i + 1, 1)
    ELSE LET n == ReqWidth(t.kids[i].kids[j])[1]
         IN  GridWidths(t, IF n > w[j] THEN [w EXCEPT ![j] = n] ELSE w, i, j + 1)

\* Grid.Draw: h after the sizing loops, from row i, cell j on.
RECURSIVE GridHeights(_, _, _, _)
GridHeights(t, h, i, j) ==
    IF i > Len(t.kids) THEN h
    ELSE IF j > Len(t.kids[i].kids) THEN GridHeights(t, h, i + 1, 1)
    ELSE LET n == ReqHeight(t.kids[i].kids[j])[1]
         IN  GridHeights(t, IF n > h[i] THEN [h EXCEPT ![i] = n] ELSE h, i, j + 1)

\* The x-cursor of Grid.Draw advanced without the one-cell gap.
GridNextXNoGap(x, wj) == x + wj

\* Grid.Draw: the x-cursor after a cell of width wj.
GridNextX(x, wj) == x + wj + 1

\* Grid.Draw: the y-cursor after a row of height hi.
GridNextY(y, hi) == y + hi

\* The state a draw threads through: the pen drawn on, the cell buffer, the
\* panic flag, and the trace of Clip calls <<depth, x, y, w, h>>.
DrawState(p, b, bad, clips) ==
    [pen |-> p, buf |-> b, panic |-> bad, clips |-> clips]

ClipCall(d, x, y, w, h) == [d |-> d, x |-> x, y |-> y, w |-> w, h |-> h]

RECURSIVE DrawW(_, _, _, _)
RECURSIVE RowLoop(_, _, _, _, _, _, _, _)
RECURSIVE ColumnLoop(_, _, _, _, _, _, _, _)
RECURSIVE GridLoop(_, _, _, _, _, _, _, _, _, _)

\* child.Draw(p.Clip(x, y, w, h)) at nesting depth d; the pen of st is p
\* again afterwards.
DrawClipped(kid, st, stride, d, x, y, w, h) ==
    LET c  == PenClip(st.pen, x, y, w, h)
        r  == DrawW(kid, [st EXCEPT !.pen = c,
                                    !.clips = Append(@, ClipCall(d, x, y, w, h))],
                    stride, d + 1)
    IN  [r EXCEPT !.pen = st.pen]

\* The drawing loop of Row.Draw from child i on.
RowLoop(t, st, stride, d, sz, h, i, x) ==
    IF i > Len(t.kids) \/ st.panic THEN st
    ELSE RowLoop(t, DrawClipped(t.kids[i], st, stride, d, x, 0, sz[i], h),
                 stride, d, sz, h, i + 1, x + sz[i])

\* The drawing loop of Column.Draw from child i on.
ColumnLoop(t, st, stride, d, sz, w, i, y) ==
    IF i > Len(t.kids) \/ st.panic THEN st
    ELSE ColumnLoop(t, DrawClipped(t.kids[i], st, stride, d, 0, y, w, sz[i]),
                    stride, d, sz, w, i + 1, y + sz[i])

\* The drawing loops of Grid.Draw from row i, cell j on.
GridLoop(t, st, stride, d, w, h, i, j, x, y) ==
    IF i > Len(t.kids) \/ st.panic THEN st
    ELSE IF j > Len(t.kids[i].kids)
    THEN GridLoop(t, st, stride, d, w, h, i + 1, 1, 0, GridNextY(y, h[i]))
    ELSE GridLoop(t, DrawClipped(t.kids[i].kids[j], st, stride, d, x, y, w[j], h[i]),
                  stride, d, w, h, i, j + 1, GridNextX(x, w[j]), y)

\* The text Label.Draw hands to Pen.Print.
LabelText(t) == t.text

\* Widget.Draw(p) for every widget kind, with p the pen of st.
DrawW(t, st, stride, d) ==
    IF st.panic THEN st
    ELSE CASE t.kind = "Label" ->
                LET r == PenPrint(st.pen, LabelText(t), stride, st.buf)
                IN  DrawState(r.pen, r.buf, r.panic, st.clips)
           [] t.kind = "Blank" -> st
           [] t.kind = "Tint" ->
                LET p1 == IF t.fg # 0 THEN PenSetFg(st.pen, t.fg) ELSE st.pen
                    p2 == IF t.bg # 0 THEN PenSetBg(p1, t.bg) ELSE p1
                IN  DrawW(t.kids[1], [st EXCEPT !.pen = p2], stride, d)
           [] t.kind = "Row" ->
                LET req == [i \in 1..Len(t.kids) |-> ReqWidth(t.kids[i])]
                IN  RowLoop(t, st, stride, d, fitSize(PenWidth(st.pen), req),
                            PenHeight(st.pen), 1, 0)
           [] t.kind = "Column" ->
                LET req == [i \in 1..Len(t.kids) |-> ReqHeight(t.kids[i])]
                IN  ColumnLoop(t, st, stride, d, fitSize(PenHeight(st.pen), req),
                               PenWidth(st.pen), 1, 0)
           [] t.kind = "Grid" ->
                GridLoop(t, st, stride, d,
                         GridWidths(t, [j \in 1..GridCols(t) |-> 0], 1, 1),
                         GridHeights(t, [i \in 1..Len(t.kids) |-> 0], 1, 1),
                         1, 1, 0, 0)

\* ------------------------------------------------------------ state

VARIABLES
    sw, sh,     \* termbox.Size()
    buf,        \* termbox.CellBuffer()
    pen,        \* the *Pen operated on
    panicked,   \* the program ended in a run-time panic
    clips,      \* the Clip calls the widgets made in the last draw
    last,       \* the last operation: its name, text argument, widget argument
    nops,       \* operations so far
    root,       \* the root widget handed to Draw: <<>> (nil) or <<widget>>
    fitN,       \* fitSize: the argument n
    fitReq,     \* fitSize: sel(t[i]) of every participant
    fitOut,     \* fitSize: the slice returned
    fitDone     \* fitSize has returned

vars == <<sw, sh, buf, pen, panicked, clips, last, nops, root,
          fitN, fitReq, fitOut, fitDone>>

Op(name, s, t) == [op |-> name, s |-> s, t |-> t]

\* ------------------------------------------------------------ inputs

\* 'a' and U+00E9 (two bytes in UTF-8).
Chars == {97, 233}

\* The texts given to Print and Println.
Texts == {EncodeRunes(rs) : rs \in SeqsUpTo(Chars, MaxChars)}

Colors == {ColorDefault, ColorRed}

ClipOffsets == (-1)..MaxOff
ClipExtents == (-1)..MaxExt

LabelA == Label(<<97>>)
LabelBB == Label(<<98, 98>>)
LabelE == Label(<<195, 169>>)
LabelEA == Label(<<195, 169, 97>>)

\* The widgets drawn onto the current pen in the surface specification.
PenWidgets ==
    { LabelA, Blank(0, 2, 0, 1), Tint(ColorRed, ColorDefault, LabelA),
      Row(<<LabelA, Blank(0, 2, 0, 1)>>), Column(<<LabelA, LabelE>>),
      Grid(<<Row(<<LabelA>>), Row(<<LabelBB, LabelA>>)>>) }

\* The widget trees handed to Draw.
Leaves == { LabelA, LabelBB, LabelE, LabelEA, Blank(0, 2, 0, 1), Blank(1, 1, 2, 2) }
Kids == Leaves \cup { Tint(ColorRed, ColorDefault, LabelA), Column(<<LabelA, LabelA>>) }
GridCells == { LabelBB, Column(<<LabelA, LabelA>>) }
GridRows == { Row(ks) : ks \in SeqsUpTo(GridCells, MaxKids) }
DrawWidgets ==
    Kids
    \cup { Row(ks) : ks \in SeqsUpTo(Kids, MaxKids) }
    \cup { Column(ks) : ks \in SeqsUpTo(Kids, MaxKids) }
    \cup { Grid(rs) : rs \in SeqsUpTo(GridRows, MaxRows) }
    \cup { Tint(ColorDefault, ColorRed, Grid(<<Row(<<LabelA, LabelBB>>)>>)) }

\* The backend grids of the drawing specification.
DrawSizes == ((1..MaxW) \X (1..MaxH)) \cup {<<10, 1>>}

\* Requirement pairs <<min, max>>, the contradictory ones (min > max) included.
ReqPairs == (0..MaxReq) \X (0..MaxReq)

\* ------------------------------------------------------------ fitSize spec

InitFit ==
    /\ sw = 0 /\ sh = 0 /\ buf = ClearedBuffer(0, 0) /\ pen = Nil
    /\ panicked = FALSE /\ clips = <<>> /\ last = Op("Init", <<>>, <<>>)
    /\ nops = 0 /\ root = <<>>
    /\ fitN \in (-1)..MaxTotal
    /\ fitReq \in SeqsUpTo(ReqPairs, MaxParts)
    /\ fitOut = <<>>
    /\ fitDone = FALSE

\* One call of fitSize.
Fit ==
    /\ ~fitDone
    /\ fitOut' = fitSize(fitN, fitReq)
    /\ fitDone' = TRUE
    /\ UNCHANGED <<sw, sh, buf, pen, panicked, clips, last, nops, root, fitN, fitReq>>

NextFit == Fit

SpecFit == InitFit /\ [][NextFit]_vars

\* ------------------------------------------------------------ surface spec

\* The state in which a widget's Draw(p) is entered with the full-screen
\* pen: as the root, called by Draw with the buffer cleared and the default
\* colours, or as the widget of root Tints, which set the pen's colours and
\* hand the same pen on.
InitPen ==
    /\ sw = MaxW /\ sh = MaxH
    /\ buf = ClearedBuffer(sw, sh)
    /\ \E fg, bg \in Colors : pen = MkPen(0, 0, sw, sh, 0, 0, fg, bg)
    /\ panicked = FALSE /\ clips = <<>> /\ last = Op("Init", <<>>, <<>>)
    /\ nops = 0 /\ root = <<>>
    /\ fitN = 0 /\ fitReq = <<>> /\ fitOut = <<>> /\ fitDone = FALSE

CanStep == ~panicked /\ nops < MaxOps

FitVars == <<fitN, fitReq, fitOut, fitDone>>

\* The pen, buffer and panic flag a surface operation with result r leaves.
Leaves3(r) == pen' = r.pen /\ buf' = r.buf /\ panicked' = r.panic

\* p = p.Clip(x, y, w, h)
Clip(x, y, w, h) ==
    /\ CanStep
    /\ pen' = PenClip(pen, x, y, w, h)
    /\ clips' = <<>>
    /\ last' = Op("Clip", <<>>, <<>>)
    /\ nops' = nops + 1
    /\ UNCHANGED <<sw, sh, buf, panicked, root, FitVars>>

\* p.SetFg(c)
SetFg(c) ==
    /\ CanStep
    /\ pen' = PenSetFg(pen, c)
    /\ clips' = <<>>
    /\ last' = Op("SetFg", <<>>, <<>>)
    /\ nops' = nops + 1
    /\ UNCHANGED <<sw, sh, buf, panicked, root, FitVars>>

\* p.SetBg(c)
SetBg(c) ==
    /\ CanStep
    /\ pen' = PenSetBg(pen, c)
    /\ clips' = <<>>
    /\ last' = Op("SetBg", <<>>, <<>>)
    /\ nops' = nops + 1
    /\ UNCHANGED <<sw, sh, buf, panicked, root, FitVars>>

\* p.Clear()
Clear ==
    /\ CanStep
    /\ Leaves3(PenClear(pen, sw, buf))
    /\ clips' = <<>>
    /\ last' = Op("Clear", <<>>, <<>>)
    /\ nops' = nops + 1
    /\ UNCHANGED <<sw, sh, root, FitVars>>

\* p.Print(s)
DoPrint(s) ==
    /\ CanStep
    /\ Leaves3(PenPrint(pen, s, sw, buf))
    /\ clips' = <<>>
    /\ last' = Op("Print", s, <<>>)
    /\ nops' = nops + 1
    /\ UNCHANGED <<sw, sh, root, FitVars>>

\* p.Println(s)
DoPrintln(s) ==
    /\ CanStep
    /\ Leaves3(PenPrintln(pen, s, sw, buf))
    /\ clips' = <<>>
    /\ last' = Op("Println", s, <<>>)
    /\ nops' = nops + 1
    /\ UNCHANGED <<sw, sh, root, FitVars>>

\* t.Draw(p)
DrawOn(t) ==
    /\ CanStep
    /\ LET r == DrawW(t, DrawState(pen, buf, FALSE, <<>>), sw, 0)
       IN  /\ Leaves3(r)
           /\ clips' = r.clips
    /\ last' = Op("DrawOn", <<>>, <<t>>)
    /\ nops' = nops + 1
    /\ UNCHANGED <<sw, sh, root, FitVars>>

NextPen ==
    \/ \E x, y \in ClipOffsets : \E w, h \in ClipExtents : Clip(x, y, w, h)
    \/ \E c \in Colors : SetFg(c)
    \/ \E c \in Colors : SetBg(c)
    \/ Clear
    \/ \E s \in Texts : DoPrint(s)
    \/ \E s \in Texts : DoPrintln(s)
    \/ \E t \in PenWidgets : DrawOn(t)

SpecPen == InitPen /\ [][NextPen]_vars

\* ------------------------------------------------------------ drawing spec

InitDraw ==
    /\ \E z \in DrawSizes : sw = z[1] /\ sh = z[2]
    /\ buf = ClearedBuffer(sw, sh)
    /\ pen = Nil
    /\ panicked = FALSE /\ clips = <<>> /\ last = Op("Init", <<>>, <<>>)
    /\ nops = 0
    /\ root \in {<<>>} \cup {<<t>> : t \in DrawWidgets}
    /\ fitN = 0 /\ fitReq = <<>> /\ fitOut = <<>> /\ fitDone = FALSE

\* Draw(root)
Draw ==
    /\ ~panicked
    /\ nops = 0
    /\ LET p == MkPen(0, 0, sw, sh, 0, 0, ColorDefault, ColorDefault)
           r == IF root = <<>>
                THEN DrawState(Nil, ClearedBuffer(sw, sh), FALSE, <<>>)
                ELSE DrawW(root[1], DrawState(p, ClearedBuffer(sw, sh), FALSE, <<>>),
                           sw, 0)
       IN  /\ Leaves3(r)
           /\ clips' = r.clips
    /\ last' = Op("Draw", <<>>, root)
    /\ nops' = nops + 1
    /\ UNCHANGED <<sw, sh, root, FitVars>>

NextDraw == Draw

SpecDraw == InitDraw /\ [][NextDraw]_vars

\* ------------------------------------------------------------ claims: fitSize

FitMins == [i \in 1..Len(fitReq) |-> fitReq[i][1]]
FitMaxs == [i \in 1..Len(fitReq) |-> fitReq[i][2]]
WellFormedReq == \A i \in 1..Len(fitReq) : fitReq[i][1] <= fitReq[i][2]

\* C1: whenever every min <= max and sum(mins) <= total <= sum(maxs), the
\* allocations fitSize returns sum to exactly total and each lies within its
\* participant's [min, max], also when the remainder does not divide evenly.
C1_DistributeExact ==
    (fitDone /\ WellFormedReq
        /\ SumSeq(FitMins) <= fitN /\ fitN <= SumSeq(FitMaxs))
    => /\ SumSeq(fitOut) = fitN
       /\ \A i \in 1..Len(fitReq) :
            fitReq[i][1] <= fitOut[i] /\ fitOut[i] <= fitReq[i][2]

\* C5: whenever the minimums sum to more than total (a negative total
\* included), fitSize returns exactly each participant's minimum, and the
\* sum exceeds total.
C5_MinimumsHonoured ==
    (fitDone /\ fitN < SumSeq(FitMins))
    => /\ fitOut = FitMins
       /\ SumSeq(fitOut) > fitN

\* A call with a positive total below the sum of the minimums, on
\* participants that could still grow.
C5_Witness ==
    /\ fitDone
    /\ fitN > 0
    /\ fitN < SumSeq(FitMins)
    /\ Len(fitReq) >= 2
    /\ \A i \in 1..Len(fitReq) : fitReq[i][1] < fitReq[i][2]

\* ------------------------------------------------------------ claims: surface

\* The rectangle of pen record q holds the buffer index k.
InRect(q, k) ==
    /\ q.x <= k % sw /\ k % sw < q.x + q.w
    /\ q.y <= k \div sw /\ k \div sw < q.y + q.h

\* C2: clip(x, y, w, h) on a non-absent surface of extent (W, H), whatever
\* its origin, returns absent whenever x < 0, y < 0, x + w > W or y + h > H,
\* so every non-absent result lies inside the rectangle of the surface it
\* was derived from. (x, y) is the result's origin relative to the origin of
\* the surface clipped, (w, h) its extent; stated for the results that hold
\* at least one cell.
C2_ClipContained ==
    [][ (last'.op = "Clip" /\ pen # Nil /\ pen' # Nil
            /\ pen'[1].w > 0 /\ pen'[1].h > 0)
        => LET x == pen'[1].x - pen[1].x
               y == pen'[1].y - pen[1].y
               w == pen'[1].w
               h == pen'[1].h
           IN  ~(x < 0 \/ y < 0 \/ x + w > pen[1].w \/ y + h > pen[1].h) ]_vars

\* C4: clear() on a non-absent surface sets exactly the cells of its
\* absolute rectangle to blanks in its current colours and leaves every
\* other cell unchanged, also when its origin row is below row 0.
C4_ClearExactRect ==
    [][ (last'.op = "Clear" /\ pen # Nil)
        => /\ ~panicked'
           /\ \A k \in DOMAIN buf :
                buf'[k] = IF InRect(pen[1], k)
                          THEN Cell(32, pen[1].fg, pen[1].bg) ELSE buf[k] ]_vars

\* C6: every operation on an absent surface is a no-op: the buffer is
\* unchanged, the surface (and so every clip of it) is again absent, its
\* width and height are 0, and nothing panics.
C6_AbsentIsNoOp ==
    [][ pen = Nil
        => /\ pen' = Nil
           /\ buf' = buf
           /\ ~panicked'
           /\ PenWidth(pen') = 0 /\ PenHeight(pen') = 0 ]_vars

\* A widget tree with containers has been drawn onto an absent surface.
C6_Witness ==
    /\ pen = Nil
    /\ last.op = "DrawOn"
    /\ last.t[1].kind = "Grid"
    /\ Len(clips) >= 3

\* C9: print(text) of a text that fits in the rest of the current row
\* leaves the cursor on that row, advanced by the text's length; println of
\* such a text leaves it at column 0 of the row just below the painted row.
C9_CursorAdvance ==
    [][ (pen # Nil /\ last'.op \in {"Print", "Println"}
            /\ pen[1].dy < pen[1].h
            /\ RuneCountInString(last'.s) <= pen[1].w - pen[1].dx)
        => /\ pen' # Nil
           /\ last'.op = "Print" =>
                /\ pen'[1].dy = pen[1].dy
                /\ pen'[1].dx = pen[1].dx + RuneCountInString(last'.s)
           /\ last'.op = "Println" =>
                /\ pen'[1].dy = pen[1].dy + 1
                /\ pen'[1].dx = 0 ]_vars

\* ------------------------------------------------------------ claims: drawing

DrawnLabel == last.op = "Draw" /\ root # <<>> /\ root[1].kind = "Label"

\* C3: painting a Label never fails: the full-screen surface holds the
\* text's characters from the origin on, row after row, cut to the surface's
\* cells, every other cell stays blank, and nothing panics. Stated for the
\* texts of one-byte characters, which the byte indexing of C10 leaves alone.
C3_LabelNeverFails ==
    (DrawnLabel /\ \A k \in 1..Len(root[1].text) : root[1].text[k] < 128)
    => LET rs == Runes(root[1].text)
       IN  /\ ~panicked
           /\ \A k \in DOMAIN buf :
                buf[k].Ch = IF k < Len(rs) THEN rs[k + 1] ELSE 32

\* C10: text is measured and indexed by characters: a Label declares
\* min = max width = its number of characters, and painting it on a surface
\* wide enough puts the k-th character in the k-th cell from the origin.
C10_CharacterCount ==
    DrawnLabel
    => LET rs == Runes(root[1].text)
       IN  /\ ReqWidth(root[1]) = <<Len(rs), Len(rs)>>
           /\ Len(rs) <= sw => \A k \in 1..Len(rs) : buf[k - 1].Ch = rs[k]

\* The scenario of C7 has been drawn.
C7_Witness ==
    /\ last.op = "Draw"
    /\ root = <<Row(<<LabelA, LabelBB>>)>>
    /\ sw = 10 /\ sh = 1

\* The characters of the buffer's cells, in order.
BufChars == [k \in DOMAIN buf |-> buf[k].Ch]

\* C7 as stated: Row{Label("a"), Label("bb")} on a 10 x 1 surface gets
\* widths [5, 5] at x-offsets 0 and 5: 'a' in column 0, 'bb' in columns 5
\* and 6, every other cell blank.
C7_RowEvenSplit ==
    C7_Witness
    => /\ clips = <<ClipCall(0, 0, 0, 5, 1), ClipCall(0, 5, 0, 5, 1)>>
       /\ BufChars = [k \in 0..9 |-> CASE k = 0 -> 97
                                       [] k \in {5, 6} -> 98
                                       [] OTHER -> 32]

\* C7 amended: the labels get widths [1, 2] at x-offsets 0 and 1: 'a' in
\* column 0, 'bb' in columns 1 and 2, every other cell blank.
C7_RowExactSplit ==
    C7_Witness
    => /\ ~panicked
       /\ clips = <<ClipCall(0, 0, 0, 1, 1), ClipCall(0, 1, 0, 2, 1)>>
       /\ BufChars = [k \in 0..9 |-> CASE k = 0 -> 97
                                       [] k \in {1, 2} -> 98
                                       [] OTHER -> 32]

\* The largest element of a set of integers, 0 for the empty set.
SetMax(S) == IF S = {} THEN 0 ELSE CHOOSE m \in S : \A k \in S : m >= k

\* The column width and row height C8 states for grid g.
WantW(g, j) ==
    SetMax({ ReqWidth(g.kids[i].kids[j])[1] :
                i \in {r \in 1..Len(g.kids) : Len(g.kids[r].kids) >= j} })
WantH(g, i) ==
    SetMax({ ReqHeight(g.kids[i].kids[j])[1] : j \in 1..Len(g.kids[i].kids) })

\* The rectangle C8 states for cell (i, j) of grid g.
WantCell(g, i, j) ==
    ClipCall(0,
             SumSeq([k \in 1..(j - 1) |-> WantW(g, k) + 1]),
             SumSeq([r \in 1..(i - 1) |-> WantH(g, r)]),
             WantW(g, j), WantH(g, i))

\* The place of cell (i, j) among the Clip calls of Grid.Draw.
CellPos(g, i, j) == SumSeq([r \in 1..(i - 1) |-> Len(g.kids[r].kids)]) + j

RectsOverlap(a, b) ==
    /\ a.x < b.x + b.w /\ b.x < a.x + a.w
    /\ a.y < b.y + b.h /\ b.y < a.y + a.h

IsTopClip(c) == c.d = 0

DrawnGrid == last.op = "Draw" /\ root # <<>> /\ root[1].kind = "Grid"

\* C8: Grid.Draw requests for cell (i, j) the rectangle at
\* x = sum of (w[k] + 1) over k < j, y = sum of h[r] over r < i, of size
\* (w[j], h[i]), with w[j] the largest minimum width among the rows that have
\* a j-th cell and h[i] the largest minimum height in row i; the rectangles
\* of two distinct cells never overlap.
C8_GridCells ==
    DrawnGrid
    => LET g   == root[1]
           top == SelectSeq(clips, IsTopClip)
       IN  /\ Len(top) = SumSeq([r \in 1..Len(g.kids) |-> Len(g.kids[r].kids)])
           /\ \A i \in 1..Len(g.kids) : \A j \in 1..Len(g.kids[i].kids) :
                top[CellPos(g, i, j)] = WantCell(g, i, j)
           /\ \A m, n \in 1..Len(top) : m # n => ~RectsOverlap(top[m], top[n])

\* A grid whose rows have unequal lengths and whose cells differ in minimum
\* width and height has been drawn.
C8_Witness ==
    /\ DrawnGrid
    /\ Len(root[1].kids) = 2
    /\ Len(root[1].kids[1].kids) = 1
    /\ Len(root[1].kids[2].kids) = 2
    /\ root[1].kids[1].kids[1] = LabelBB
    /\ root[1].kids[2].kids[1].kind = "Column"
    /\ pen # Nil

====
